---------------------------- MODULE Spec2Model ----------------------------
(***************************************************************************)
(* Book-club selections (src/selections.py): the shortlist store           *)
(* (book_selections.csv), the selection-history ledger                     *)
(* (selection_history.csv), the eligibility filter, the random selector    *)
(* and the Streamlit session that drives them.                             *)
(*                                                                         *)
(* Text values (author_names, genres) are sequences of lexemes: a word, a  *)
(* comma "," or a blank " ".  The empty text <<>> is what pandas reads     *)
(* back as NaN.  A CSV file is [exists, rows]; each cell of a row is the   *)
(* text written to the file.  Reading a file (pd.read_csv) infers one type *)
(* per column; writing (to_csv) renders each value as text.  A numeric     *)
(* value is represented by its rendering: "320" is the integer, "320.0"    *)
(* the float, "" the missing value.                                        *)
(***************************************************************************)
EXTENDS Integers, Sequences, FiniteSets, TLC

\* Longest ledger the confirm action is allowed to build.
MaxRounds == 3
\* Largest number of search results ticked for one bulk add.
MaxBulk == 2
\* Longest shortlist the add actions are allowed to build.
MaxList == 3

VARIABLES
    book_selections,        \* data_files/book_selections.csv
    selection_history,      \* data_files/selection_history.csv
    show_random_selection,  \* st.session_state.show_random_selection
    random_selected_book,   \* st.session_state.random_selected_book: <<>> is None
    in_flight               \* per session: the handler that has read but not yet written

vars == <<book_selections, selection_history, show_random_selection,
          random_selected_book, in_flight>>

stores == <<book_selections, selection_history>>

session == <<show_random_selection, random_selected_book>>

-----------------------------------------------------------------------------
(* Catalog documents and the manual-entry form                             *)

\* Documents the catalog search hands to the add handlers: author_names and
\* genres are lists, pages may be None, the id is a number.
DocA == [id |-> "1", title |-> "A", author_names |-> <<"X">>,
         genres |-> <<"Horror", "Gothic">>, pages |-> "320", rating |-> "4.2"]

DocB == [id |-> "2", title |-> "B", author_names |-> <<"Y">>,
         genres |-> <<"Horror">>, pages |-> "320", rating |-> "4.2"]

DocC == [id |-> "3", title |-> "C", author_names |-> <<"X">>,
         genres |-> <<"Romance">>, pages |-> "", rating |-> "4.2"]

DocE == [id |-> "4", title |-> "E", author_names |-> <<"W">>,
         genres |-> <<"Gothic">>, pages |-> "320", rating |-> "4.2"]

SearchResults == {DocA, DocB, DocC, DocE}

\* The book the manual-entry form builds: a text id derived from the title,
\* one author, the genre 'Manual Entry', no pages and no rating.
manual_book == [id |-> "manual_d", title |-> "D", author_names |-> <<"Z">>,
                genres |-> <<"Manual Entry">>, pages |-> "", rating |-> ""]

\* The cells of an id column that parse as integers.
NumericCells == {"1", "2", "3", "4"}

None == <<>>

-----------------------------------------------------------------------------
(* Text helpers                                                            *)

Max(S) == CHOOSE x \in S : \A y \in S : y <= x

RECURSIVE Join(_)
\* ', '.join(names)
Join(names) ==
    IF names = <<>> THEN <<>>
    ELSE IF Len(names) = 1 THEN <<names[1]>>
    ELSE <<names[1], ",", " ">> \o Join(Tail(names))

RECURSIVE LStrip(_)
LStrip(s) == IF s # <<>> /\ Head(s) = " " THEN LStrip(Tail(s)) ELSE s

RECURSIVE RStrip(_)
RStrip(s) ==
    IF s # <<>> /\ s[Len(s)] = " " THEN RStrip(SubSeq(s, 1, Len(s) - 1)) ELSE s

\* str.strip()
Strip(s) == RStrip(LStrip(s))

\* str.split(',')[0]
FirstToken(s) ==
    LET commas == {i \in DOMAIN s : s[i] = ","}
    IN  IF commas = {} THEN s
        ELSE SubSeq(s, 1, (CHOOSE i \in commas : \A j \in commas : i <= j) - 1)

\* Mutant: the whole genres text is compared, not its first entry.
get_primary_genre_whole(genres_string) == Strip(genres_string)

\* str.lower() on the genre names of the model.
Lower(s) == [i \in DOMAIN s |-> IF s[i] = "Horror" THEN "horror" ELSE s[i]]

\* Mutant: the first entry is compared without regard to case.
get_primary_genre_folded(genres_string) ==
    IF genres_string = <<>> THEN <<>>
    ELSE Lower(Strip(FirstToken(genres_string)))

\* '' for a missing or empty field, else the first comma-separated entry,
\* stripped.
get_primary_genre(genres_string) ==
    IF genres_string = <<>> THEN <<>>
    ELSE Strip(FirstToken(genres_string))

-----------------------------------------------------------------------------
(* CSV files and data frames                                               *)

\* The renderings of float values; AsFloat is the int64 -> float64 upcast.
FloatCells == {"320.0"}

AsFloat(cell) == IF cell = "320" THEN "320.0" ELSE cell

Column(rows, col) == [i \in DOMAIN rows |-> rows[i][col]]

\* read_csv infers int64 for a column whose cells all parse as integers.
IntColumn(cells) == cells # <<>> /\ \A i \in DOMAIN cells : cells[i] \in NumericCells

\* A numeric column holding a float or a missing value is float64.
FloatColumn(cells) == \E i \in DOMAIN cells : cells[i] = "" \/ cells[i] \in FloatCells

\* One dtype per numeric column: integers are upcast when the column is float64.
Upcast(df) ==
    IF FloatColumn(Column(df, "pages"))
    THEN [i \in DOMAIN df |-> [df[i] EXCEPT !.pages = AsFloat(@)]]
    ELSE df

\* pd.read_csv: the id column is typed as a whole, "int" or "str".
ReadCsv(rows, idcol) ==
    LET t == IF IntColumn(Column(rows, idcol)) THEN "int" ELSE "str"
    IN  Upcast([i \in DOMAIN rows |->
                  [rows[i] EXCEPT ![idcol] = [t |-> t, v |-> @]]])

\* DataFrame.to_csv(index=False): every value rendered as text.
ToCsv(df, idcol) ==
    [exists |-> TRUE,
     rows |-> [i \in DOMAIN df |-> [df[i] EXCEPT ![idcol] = @.v]]]

MissingFile == [exists |-> FALSE, rows |-> <<>>]

load_book_list(file) ==
    IF file.exists THEN ReadCsv(file.rows, "id") ELSE <<>>

load_selection_history(file) ==
    IF file.exists THEN ReadCsv(file.rows, "book_id") ELSE <<>>

Rounds(history_df) == {history_df[i].selection_round : i \in DOMAIN history_df}

\* history_df.sort_values('selection_round', ascending=False).iloc[0]
get_last_selection(history_df) ==
    CHOOSE r \in {history_df[i] : i \in DOMAIN history_df} :
        r.selection_round = Max(Rounds(history_df))

-----------------------------------------------------------------------------
(* Eligibility filter and selector                                         *)

\* Series != value on text: a missing value (NaN) differs from everything.
TextNe(a, b) == a = <<>> \/ b = <<>> \/ a # b

\* eligible_books['id'].isin(selected_book_ids): same type and same value.
selected_book_ids(history_df) == {history_df[i].book_id : i \in DOMAIN history_df}

\* The three filters, applied to a non-empty list under a non-empty ledger.
filter_books(current_books, history_df) ==
    LET last_selection == get_last_selection(history_df)
        last_author == last_selection.author_names
        last_genre == get_primary_genre(last_selection.genres)
        keep(book) ==
            /\ book.id \notin selected_book_ids(history_df)
            /\ TextNe(book.author_names, last_author)
            /\ (last_genre # <<>> =>
                   get_primary_genre(book.genres) # last_genre)
    IN  SelectSeq(current_books, keep)

\* Mutant: with no history the first listed book plays the last pick.
get_eligible_books_first_as_last(current_books, history_df) ==
    IF current_books = <<>> THEN <<>>
    ELSE IF history_df = <<>>
         THEN LET first == current_books[1]
                  keep(book) ==
                      book = first \/ book.author_names # first.author_names
              IN  SelectSeq(current_books, keep)
         ELSE filter_books(current_books, history_df)

get_eligible_books_for_selection(current_books, history_df) ==
    IF current_books = <<>> THEN <<>>
    ELSE IF history_df = <<>> THEN current_books
    ELSE filter_books(current_books, history_df)

Range(s) == {s[i] : i \in DOMAIN s}

\* Mutant: the sample is drawn from the unfiltered list.
select_random_book_unfiltered(current_books, history_df) ==
    Range(current_books)

\* Mutant: the first eligible row is always taken.
select_random_book_first(current_books, history_df) ==
    {get_eligible_books_for_selection(current_books, history_df)[1]}

\* Mutant: with nothing eligible the sample falls back to the whole list.
select_random_book_or_any(current_books, history_df) ==
    LET eligible == get_eligible_books_for_selection(current_books, history_df)
    IN  IF eligible = <<>> THEN Range(current_books) ELSE Range(eligible)

\* eligible_books.sample(n=1).iloc[0].to_dict(): any eligible row.
select_random_book(current_books, history_df) ==
    Range(get_eligible_books_for_selection(current_books, history_df))

\* The status text get_eligible_books_for_selection returns with the frame:
\* which of its three messages, the count it names and the filtered count.
get_eligible_status(current_books, history_df) ==
    IF current_books = <<>>
    THEN [msg |-> "No books in your list", n |-> 0, filtered_out |-> 0]
    ELSE IF history_df = <<>>
    THEN [msg |-> "All books eligible (no previous selections)",
          n |-> Len(current_books), filtered_out |-> 0]
    ELSE LET eligible == filter_books(current_books, history_df)
         IN  [msg |-> "books eligible", n |-> Len(eligible),
              filtered_out |-> Len(current_books) - Len(eligible)]

\* The pairs (selected_book, status) select_random_book can return: None
\* with the status when nothing is eligible, else a sampled row.
select_random_book_returns(current_books, history_df) ==
    LET status == get_eligible_status(current_books, history_df)
    IN  IF get_eligible_books_for_selection(current_books, history_df) = <<>>
        THEN {[selected_book |-> None, status |-> status]}
        ELSE {[selected_book |-> <<book>>, status |-> status] :
                 book \in select_random_book(current_books, history_df)}

-----------------------------------------------------------------------------
(* History mutators                                                        *)

\* Mutant: the new round repeats the current maximum.
next_round_repeats(history_df) ==
    IF history_df = <<>> THEN 1 ELSE Max(Rounds(history_df))

\* 1 if history_df.empty else history_df['selection_round'].max() + 1
next_round(history_df) ==
    IF history_df = <<>> THEN 1 ELSE Max(Rounds(history_df)) + 1

selection_row(history_df, book_data) ==
    [selection_round |-> next_round(history_df),
     book_id |-> book_data.id,
     title |-> book_data.title,
     author_names |-> book_data.author_names,
     genres |-> book_data.genres,
     pages |-> book_data.pages,
     rating |-> book_data.rating]

\* Mutant: a book whose id the ledger already holds is rejected.
save_book_selection_checked(file, book_data) ==
    LET history_df == load_selection_history(file)
    IN  IF \E i \in DOMAIN history_df : history_df[i].book_id.v = book_data.id.v
        THEN [ok |-> FALSE, file |-> file, round |-> 0]
        ELSE [ok |-> TRUE,
              file |-> ToCsv(Upcast(Append(history_df,
                                           selection_row(history_df, book_data))),
                             "book_id"),
              round |-> next_round(history_df)]

\* save_book_selection: the file it writes and the round it reports.
\* pd.concat gives the numeric column one dtype again.
save_book_selection(file, book_data) ==
    LET history_df == load_selection_history(file)
    IN  [ok |-> TRUE,
         file |-> ToCsv(Upcast(Append(history_df,
                                      selection_row(history_df, book_data))),
                        "book_id"),
         round |-> next_round(history_df)]

\* Mutant: the record of the lowest round is the one removed.
remove_first_selection(file) ==
    LET history_df == load_selection_history(file)
        last_selection == get_last_selection(history_df)
        min_round == CHOOSE x \in Rounds(history_df) :
                         \A y \in Rounds(history_df) : x <= y
        keep(r) == r.selection_round # min_round
    IN  IF history_df = <<>>
        THEN [ok |-> FALSE, message |-> "No selections to remove",
              file |-> file, title |-> "", round |-> 0]
        ELSE [ok |-> TRUE, message |-> "Removed",
              file |-> ToCsv(SelectSeq(history_df, keep), "book_id"),
              title |-> last_selection.title,
              round |-> last_selection.selection_round]

\* Mutant: on an empty ledger the empty frame is written back.
remove_last_selection_rewrites(file) ==
    LET history_df == load_selection_history(file)
        last_selection == get_last_selection(history_df)
        max_round == Max(Rounds(history_df))
        keep(r) == r.selection_round # max_round
    IN  IF history_df = <<>>
        THEN [ok |-> FALSE, message |-> "No selections to remove",
              file |-> ToCsv(history_df, "book_id"), title |-> "", round |-> 0]
        ELSE [ok |-> TRUE, message |-> "Removed",
              file |-> ToCsv(SelectSeq(history_df, keep), "book_id"),
              title |-> last_selection.title,
              round |-> last_selection.selection_round]

\* remove_last_selection: nothing is written when the ledger is empty.
remove_last_selection(file) ==
    LET history_df == load_selection_history(file)
        last_selection == get_last_selection(history_df)
        max_round == Max(Rounds(history_df))
        keep(r) == r.selection_round # max_round
    IN  IF history_df = <<>>
        THEN [ok |-> FALSE, message |-> "No selections to remove",
              file |-> file, title |-> "", round |-> 0]
        ELSE [ok |-> TRUE, message |-> "Removed",
              file |-> ToCsv(SelectSeq(history_df, keep), "book_id"),
              title |-> last_selection.title,
              round |-> last_selection.selection_round]

\* Mutant: the empty frame is built but never written.
clear_all_selections_unwritten(file) == [ok |-> TRUE, file |-> file]

\* clear_all_selections: a file with the header line only.
clear_all_selections(file) == [ok |-> TRUE, file |-> ToCsv(<<>>, "book_id")]

-----------------------------------------------------------------------------
(* Shortlist mutators                                                      *)

\* Mutant: the id is compared as typed, without astype(str).
already_in_list_typed(df, book_data) ==
    \E i \in DOMAIN df :
        df[i].id = [t |-> IF book_data.id \in NumericCells THEN "int" ELSE "str",
                    v |-> book_data.id]

\* book_id in df['id'].astype(str).values
already_in_list(df, book_data) == \E i \in DOMAIN df : df[i].id.v = book_data.id

\* The row of a catalog document: every value a str, the lists joined.
book_row(book_data) ==
    [id |-> [t |-> "str", v |-> book_data.id],
     title |-> book_data.title,
     author_names |-> Join(book_data.author_names),
     genres |-> Join(book_data.genres),
     pages |-> book_data.pages,
     rating |-> book_data.rating]

\* save_book_to_list: nothing is written when the id is already listed.
save_book_to_list(file, book_data) ==
    LET df == load_book_list(file)
    IN  IF already_in_list(df, book_data) THEN [ok |-> FALSE, file |-> file]
        ELSE [ok |-> TRUE, file |-> ToCsv(Append(df, book_row(book_data)), "id")]

RECURSIVE save_books_to_list(_, _)
\* for book_id, book in selected_books.items(): save_book_to_list(book)
save_books_to_list(file, selected_books) ==
    IF selected_books = <<>> THEN file
    ELSE save_books_to_list(save_book_to_list(file, Head(selected_books)).file,
                            Tail(selected_books))

RECURSIVE drop_duplicates(_)
\* df.drop_duplicates(subset=['id'], keep='first')
drop_duplicates(df) ==
    IF df = <<>> THEN <<>>
    ELSE LET init == drop_duplicates(SubSeq(df, 1, Len(df) - 1))
             last == df[Len(df)]
         IN  IF \E i \in DOMAIN init : init[i].id = last.id THEN init
             ELSE Append(init, last)

\* clean_duplicate_books: the file afterwards and what is returned: 0 when
\* the file is missing (the read raises), None when the frame is empty (no
\* return statement is reached), else the number of rows dropped.
clean_duplicate_books(file) ==
    IF ~file.exists THEN [file |-> file, removed_count |-> 0, none |-> FALSE]
    ELSE LET df == ReadCsv(file.rows, "id")
             df_cleaned == drop_duplicates(df)
             removed_count == Len(df) - Len(df_cleaned)
         IN  IF df = <<>> THEN [file |-> file, removed_count |-> 0, none |-> TRUE]
             ELSE IF removed_count > 0
                  THEN [file |-> ToCsv(df_cleaned, "id"),
                        removed_count |-> removed_count, none |-> FALSE]
                  ELSE [file |-> file, removed_count |-> 0, none |-> FALSE]

\* book_list_df[~book_list_df['id'].isin(books_to_remove)].to_csv(...)
remove_selected_books(file, books_to_remove) ==
    LET book_list_df == load_book_list(file)
        keep(book) == book.id \notin books_to_remove
    IN  ToCsv(SelectSeq(book_list_df, keep), "id")

-----------------------------------------------------------------------------
(* The session: one action per button handler                              *)

current_books == load_book_list(book_selections)

history_df == load_selection_history(selection_history)

eligible_books == get_eligible_books_for_selection(current_books, history_df)

\* The browser sessions (tabs) that can run the script side by side.
Sessions == {"s1", "s2"}

\* A session that is not between the read and the write of a handler.
Idle == [op |-> "idle", df |-> <<>>, arg |-> <<>>]

Init ==
    /\ book_selections = MissingFile
    /\ selection_history = MissingFile
    /\ show_random_selection = FALSE
    /\ random_selected_book = None
    /\ in_flight = [s \in Sessions |-> Idle]

\* Sidebar: "Pick Random Book", shown while some book is eligible.
PickRandomBook ==
    /\ eligible_books # <<>>
    /\ show_random_selection' = TRUE
    /\ UNCHANGED <<stores, random_selected_book>>
    /\ UNCHANGED in_flight

\* The random-selection page is rendered with at least one eligible book.
RandomPageShown == show_random_selection /\ eligible_books # <<>>

\* Mutant: the sampled book is recorded at once.
SelectRandomBookSaves ==
    /\ RandomPageShown
    /\ Len(selection_history.rows) < MaxRounds
    /\ \E selected_book \in select_random_book(current_books, history_df) :
           /\ random_selected_book' = <<selected_book>>
           /\ selection_history' =
                  save_book_selection(selection_history, selected_book).file
    /\ UNCHANGED <<book_selections, show_random_selection>>
    /\ UNCHANGED in_flight

\* Random page: "SELECT RANDOM BOOK".
SelectRandomBook ==
    /\ RandomPageShown
    /\ \E selected_book \in select_random_book(current_books, history_df) :
           random_selected_book' = <<selected_book>>
    /\ UNCHANGED <<stores, show_random_selection>>
    /\ UNCHANGED in_flight

\* The pending pick is rendered down to its buttons: int(rating) raises on a
\* missing rating and the page's except clause ends the rendering.
PendingShown ==
    /\ RandomPageShown
    /\ random_selected_book # None
    /\ random_selected_book[1].rating # ""

\* Random page: "Confirm Selection".
ConfirmSelection ==
    /\ PendingShown
    /\ Len(selection_history.rows) < MaxRounds
    /\ selection_history' =
           save_book_selection(selection_history, random_selected_book[1]).file
    /\ show_random_selection' = FALSE
    /\ random_selected_book' = None
    /\ UNCHANGED book_selections
    /\ UNCHANGED in_flight

\* Mutant: the discarded pick is also dropped from the shortlist, so that it
\* cannot be proposed again.
PickDifferentBookDrops ==
    /\ PendingShown
    /\ random_selected_book' = None
    /\ book_selections' =
           remove_selected_books(book_selections, {random_selected_book[1].id})
    /\ UNCHANGED <<selection_history, show_random_selection>>
    /\ UNCHANGED in_flight

\* Random page: "Pick Different Book".
PickDifferentBook ==
    /\ PendingShown
    /\ random_selected_book' = None
    /\ UNCHANGED <<stores, show_random_selection>>
    /\ UNCHANGED in_flight

\* Random page: "Cancel".
CancelSelection ==
    /\ PendingShown
    /\ show_random_selection' = FALSE
    /\ random_selected_book' = None
    /\ UNCHANGED stores
    /\ UNCHANGED in_flight

\* Random page: "Back to Search" / "View Book List", shown when no book is
\* eligible or when no pick is pending.
BackFromRandom ==
    /\ show_random_selection
    /\ eligible_books = <<>> \/ random_selected_book = None
    /\ show_random_selection' = FALSE
    /\ UNCHANGED <<stores, random_selected_book>>
    /\ UNCHANGED in_flight

\* Sidebar: "Remove Last Selection", shown while the ledger is not empty.
RemoveLastSelection ==
    /\ history_df # <<>>
    /\ selection_history' = remove_last_selection(selection_history).file
    /\ UNCHANGED <<book_selections, session>>
    /\ UNCHANGED in_flight

\* Sidebar: "Clear All Selections" and its "Confirm", shown while the ledger
\* is not empty.
ClearAllSelections ==
    /\ history_df # <<>>
    /\ selection_history' = clear_all_selections(selection_history).file
    /\ UNCHANGED <<book_selections, session>>
    /\ UNCHANGED in_flight

\* Sidebar form: "Add Manually".
ManualEntry ==
    /\ Len(book_selections.rows) < MaxList
    /\ book_selections' = save_book_to_list(book_selections, manual_book).file
    /\ UNCHANGED <<selection_history, session>>
    /\ UNCHANGED in_flight

\* The ticked search results, in the order they were ticked.
Selections ==
    {sel \in UNION {[1..n -> SearchResults] : n \in 1..MaxBulk} :
        \A i, j \in DOMAIN sel : i # j => sel[i] # sel[j]}

\* Sidebar quick actions / search page: "ADD ALL SELECTED BOOKS".
AddSelectedBooks ==
    /\ \E selected_books \in Selections :
           /\ Len(book_selections.rows) + Len(selected_books) <= MaxList
           /\ book_selections' = save_books_to_list(book_selections, selected_books)
    /\ UNCHANGED <<selection_history, session>>
    /\ UNCHANGED in_flight

\* Mutant: removing a book from the shortlist also deletes its ledger
\* records.
RemoveSelectedBooksCascades ==
    /\ ~show_random_selection
    /\ current_books # <<>>
    /\ \E books_to_remove \in SUBSET {current_books[i].id : i \in DOMAIN current_books} :
           LET keep(r) == \A id \in books_to_remove : r.book_id.v # id.v
           IN  /\ books_to_remove # {}
               /\ book_selections' = remove_selected_books(book_selections, books_to_remove)
               /\ selection_history' =
                      IF history_df = <<>> THEN selection_history
                      ELSE ToCsv(SelectSeq(history_df, keep), "book_id")
    /\ UNCHANGED session
    /\ UNCHANGED in_flight

\* List page: "Remove Selected Books" with the ticked rows.  The list page
\* is one click on "View My Book List" away whenever the random page is
\* not the page shown.
RemoveSelectedBooks ==
    /\ ~show_random_selection
    /\ current_books # <<>>
    /\ \E books_to_remove \in SUBSET {current_books[i].id : i \in DOMAIN current_books} :
           /\ books_to_remove # {}
           /\ book_selections' = remove_selected_books(book_selections, books_to_remove)
    /\ UNCHANGED <<selection_history, session>>
    /\ UNCHANGED in_flight

\* Sidebar: "Remove Duplicate Books".
RemoveDuplicateBooks ==
    /\ book_selections' = clean_duplicate_books(book_selections).file
    /\ UNCHANGED <<selection_history, session>>
    /\ UNCHANGED in_flight

Next ==
    \/ PickRandomBook
    \/ SelectRandomBook
    \/ ConfirmSelection
    \/ PickDifferentBook
    \/ CancelSelection
    \/ BackFromRandom
    \/ RemoveLastSelection
    \/ ClearAllSelections
    \/ ManualEntry
    \/ AddSelectedBooks
    \/ RemoveSelectedBooks
    \/ RemoveDuplicateBooks

Spec == Init /\ [][Next]_vars

-----------------------------------------------------------------------------
(* Vocabulary of the claims                                                *)

\* The ids and book_ids as written in the files.
ListIds == Column(book_selections.rows, "id")

LedgerIds == Column(selection_history.rows, "book_id")

EligibleIds == [i \in DOMAIN eligible_books |-> eligible_books[i].id.v]

LedgerRounds == Column(selection_history.rows, "selection_round")

-----------------------------------------------------------------------------
(* C1 *)

\* C1: after any sequence of confirm, remove-last and clear-all from an
\* empty ledger the selection_round values are exactly 1..N, N the number of
\* records, with no gap and no repeated round.
C1_RoundsAreOneToN ==
    /\ Range(LedgerRounds) = 1..Len(selection_history.rows)
    /\ \A i, j \in DOMAIN LedgerRounds :
           LedgerRounds[i] = LedgerRounds[j] => i = j

\* Three confirms have been recorded.
C1_Witness == Len(selection_history.rows) >= 3

-----------------------------------------------------------------------------
(* C2 - C5: the eligibility filter                                         *)

\* The record with the maximum selection_round, as written in the file.
LastRecord ==
    CHOOSE r \in Range(selection_history.rows) :
        \A q \in Range(selection_history.rows) :
            q.selection_round <= r.selection_round

\* The three exclusion rules as the specification words them, on the ids
\* and texts the files hold.
SpecKeeps(book) ==
    /\ \A i \in DOMAIN LedgerIds : LedgerIds[i] # book.id
    /\ book.author_names # LastRecord.author_names
    /\ (get_primary_genre(LastRecord.genres) # <<>> =>
           get_primary_genre(book.genres) # get_primary_genre(LastRecord.genres))

\* C2: for a non-empty shortlist and a non-empty ledger the eligible set is
\* exactly the shortlist entries, in shortlist order, whose id is no book_id
\* of the ledger, whose author_names differs from the last pick's and whose
\* primary genre differs from the last pick's non-empty primary genre.
C2_EligibleIsSpecFilter ==
    (book_selections.rows # <<>> /\ selection_history.rows # <<>>) =>
        EligibleIds = Column(SelectSeq(book_selections.rows, SpecKeeps), "id")

\* C3: no eligible entry has the book_id of any ledger record, whatever the
\* record's round.
C3_NoEligibleIdInLedger ==
    \A i \in DOMAIN EligibleIds : \A j \in DOMAIN LedgerIds :
        EligibleIds[i] # LedgerIds[j]

\* C4: a book whose record a confirm has put in the ledger is in no later
\* eligible set; in particular not in the eligible set of the next state,
\* whatever the step (confirm, remove-last, clear-all, add, remove).
C4_PickedStaysIneligible ==
    [][\A j \in DOMAIN LedgerIds : \A i \in DOMAIN EligibleIds' :
           EligibleIds'[i] # LedgerIds[j]]_vars

\* C5: with an empty ledger the eligible set is the whole non-empty
\* shortlist, same entries in the same order.
C5_EmptyLedgerAllEligible ==
    (book_selections.rows # <<>> /\ selection_history.rows = <<>>) =>
        /\ eligible_books = current_books
        /\ EligibleIds = ListIds

\* A and C share the author X and are both eligible on an empty ledger.
C5_Witness ==
    /\ selection_history.rows = <<>>
    /\ Len(book_selections.rows) >= 3
    /\ \E i, j \in DOMAIN eligible_books :
           i # j /\ eligible_books[i].author_names = eligible_books[j].author_names

-----------------------------------------------------------------------------
(* C6: the scenario A (X; Horror, Gothic), B (Y; Horror), C (X; Romance)   *)

ShortlistIsABC == ListIds = <<DocA.id, DocB.id, DocC.id>>

LedgerIsA ==
    /\ LedgerIds = <<DocA.id>>
    /\ LedgerRounds = <<1>>

\* C6 as stated: on an empty ledger all three are eligible, and after A is
\* confirmed as round 1 exactly B is left.
C6_OnlyBLeft ==
    /\ (ShortlistIsABC /\ selection_history.rows = <<>>) =>
           EligibleIds = <<DocA.id, DocB.id, DocC.id>>
    /\ (ShortlistIsABC /\ LedgerIsA) => EligibleIds = <<DocB.id>>

\* C6 amended: on an empty ledger all three are eligible, and after A is
\* confirmed as round 1 nothing is left: A is already picked, C has A's
\* author X and B has A's primary genre Horror.
C6_NothingLeft ==
    /\ (ShortlistIsABC /\ selection_history.rows = <<>>) =>
           EligibleIds = <<DocA.id, DocB.id, DocC.id>>
    /\ (ShortlistIsABC /\ LedgerIsA) => EligibleIds = <<>>

C6_Witness == ShortlistIsABC /\ LedgerIsA

-----------------------------------------------------------------------------
(* C7 - C8: the history mutators composed                                  *)

\* C7: confirming the pending pick and then removing the last selection
\* leaves the ledger with the records it had before the confirm, and
\* remove-last reports the round the confirm assigned.
C7_ConfirmThenRemoveRestores ==
    PendingShown =>
        LET confirmed == save_book_selection(selection_history,
                                             random_selected_book[1])
            removed == remove_last_selection(confirmed.file)
        IN  /\ removed.ok
            /\ removed.round = confirmed.round
            /\ removed.file.rows = selection_history.rows

\* Every book the session can hand to a confirm: the pending pick, or a row
\* of the shortlist once it is proposed.
Proposals == Range(random_selected_book) \cup Range(current_books)

\* C8: after clear-all the ledger loads as an empty sequence whatever it
\* held, a second clear-all changes nothing, and the next confirm is
\* recorded as round 1.
C8_ClearAllEmptiesLedger ==
    /\ [](LET cleared == clear_all_selections(selection_history).file
          IN  /\ load_selection_history(cleared) = <<>>
              /\ clear_all_selections(cleared).file = cleared
              /\ \A book_data \in Proposals :
                     LET confirmed == save_book_selection(cleared, book_data)
                     IN  /\ confirmed.round = 1
                         /\ Column(confirmed.file.rows, "selection_round") = <<1>>)
    /\ [][ClearAllSelections =>
             load_selection_history(selection_history') = <<>>]_vars

\* A ledger that held records has been emptied while a pick is pending.
C8_Witness ==
    /\ selection_history.exists
    /\ selection_history.rows = <<>>
    /\ PendingShown

-----------------------------------------------------------------------------
(* C9 - C10: propose, replace, cancel, confirm                             *)

\* C9: proposing, replacing and cancelling a pick leave both stores
\* unchanged, and the ledger grows only by the confirm of the pending pick.
C9_OnlyConfirmAppends ==
    [][/\ (PickRandomBook \/ SelectRandomBook \/ PickDifferentBook
            \/ CancelSelection \/ BackFromRandom) =>
              UNCHANGED <<book_selections, selection_history>>
       /\ Len(selection_history'.rows) > Len(selection_history.rows) =>
              /\ PendingShown
              /\ selection_history' =
                     save_book_selection(selection_history,
                                         random_selected_book[1]).file
              /\ random_selected_book' = None]_vars

\* A pick is pending over a non-empty ledger.
C9_Witness ==
    /\ random_selected_book # None
    /\ selection_history.rows # <<>>
    /\ book_selections.rows # <<>>

\* C10: the book SELECT RANDOM BOOK stores is a member of the eligible set
\* of that moment, every member of the eligible set can be the result, and
\* a single eligible entry is the result.
C10_SelectsFromEligible ==
    /\ [](RandomPageShown =>
             \A book \in Range(eligible_books) :
                 ENABLED (SelectRandomBook /\ random_selected_book' = <<book>>))
    /\ [][SelectRandomBook =>
             /\ random_selected_book' # None
             /\ random_selected_book'[1] \in Range(eligible_books)
             /\ (Len(eligible_books) = 1 =>
                    random_selected_book' = <<eligible_books[1]>>)]_vars

\* A pick is pending that came from an eligible set of two or more.
C10_Witness ==
    /\ RandomPageShown
    /\ Len(eligible_books) >= 2
    /\ random_selected_book # None
    /\ random_selected_book[1] \in Range(eligible_books)

-----------------------------------------------------------------------------
(* C11 - C12: nothing to propose, and proposing again                      *)

\* C11: when the eligible set is empty select_random_book returns no book,
\* only the status; no step can set a pending pick from it, and for an
\* empty shortlist the eligible set is empty with the "no books" status.
C11_EmptyEligibleSelectsNothing ==
    /\ eligible_books = <<>> =>
           /\ select_random_book(current_books, history_df) = {}
           /\ select_random_book_returns(current_books, history_df) =
                  {[selected_book |-> None,
                    status |-> get_eligible_status(current_books, history_df)]}
           /\ ~ENABLED SelectRandomBook
    /\ current_books = <<>> =>
           /\ eligible_books = <<>>
           /\ get_eligible_status(current_books, history_df).msg =
                  "No books in your list"

\* The random page is shown over a non-empty shortlist whose every entry
\* is filtered out, and no pick is pending.
C11_Witness ==
    /\ show_random_selection
    /\ current_books # <<>>
    /\ history_df # <<>>
    /\ eligible_books = <<>>
    /\ random_selected_book = None

\* C12: "Pick Different Book" clears the pending pick and changes nothing
\* else, so the next proposal is drawn from the eligible set of that moment:
\* every eligible book can be proposed, the discarded one included, and
\* with two or more eligible books a book other than the discarded one can.
C12_PickDifferentResamples ==
    /\ [](RandomPageShown /\ random_selected_book = None =>
             \A book \in Range(eligible_books) :
                 ENABLED (SelectRandomBook /\ random_selected_book' = <<book>>))
    /\ [][PickDifferentBook =>
             LET discarded == random_selected_book[1]
                 next_picks == select_random_book(current_books', history_df')
             IN  /\ random_selected_book' = None
                 /\ show_random_selection'
                 /\ UNCHANGED stores
                 /\ next_picks = Range(eligible_books)
                 /\ (discarded \in Range(eligible_books) =>
                        discarded \in next_picks)
                 /\ (Len(eligible_books) >= 2 =>
                        \E book \in next_picks : book # discarded)]_vars

\* A pick that is one of two or more eligible books is pending and can be
\* discarded.
C12_Witness ==
    /\ PendingShown
    /\ Len(eligible_books) >= 2
    /\ random_selected_book[1] \in Range(eligible_books)
    /\ selection_history.rows # <<>>

-----------------------------------------------------------------------------
(* C13 - C16: confirm and remove-last, record by record                    *)

\* C13: a confirm adds exactly one record, numbered 1 on an empty ledger
\* and maximum round + 1 otherwise, carrying the proposed book's book_id,
\* title, author_names and genres, and every record present before is kept
\* as it was.
C13_ConfirmAppendsOneRecord ==
    [][ConfirmSelection =>
          LET old == selection_history.rows
              new == selection_history'.rows
              book == random_selected_book[1]
              added == new[Len(new)]
          IN  /\ Len(new) = Len(old) + 1
              /\ added.selection_round =
                     (IF old = <<>> THEN 1
                      ELSE Max(Range(LedgerRounds)) + 1)
              /\ added.book_id = book.id.v
              /\ added.title = book.title
              /\ added.author_names = book.author_names
              /\ added.genres = book.genres
              /\ SubSeq(new, 1, Len(old)) = old]_vars

\* The pending pick is a row of the shortlist as it is now.
PendingInShortlist ==
    \E i \in DOMAIN current_books :
        current_books[i].id.v = random_selected_book[1].id.v

\* The ledger already holds a record of the pending pick.
PendingInLedger ==
    \E j \in DOMAIN LedgerIds : LedgerIds[j] = random_selected_book[1].id.v

\* C14: confirm applies no business rule.  Whatever the stores hold by now,
\* saving the pending pick succeeds and appends its record, and the Confirm
\* button, whenever it is shown, does just that: also for a pick that has
\* left the shortlist, is already recorded, or is no longer eligible.
C14_ConfirmNeverRejects ==
    /\ [](random_selected_book # None =>
             LET book == random_selected_book[1]
                 confirmed == save_book_selection(selection_history, book)
                 new == confirmed.file.rows
             IN  /\ confirmed.ok
                 /\ Len(new) = Len(selection_history.rows) + 1
                 /\ new[Len(new)].book_id = book.id.v)
    /\ [](PendingShown /\ Len(selection_history.rows) < MaxRounds =>
             ENABLED ConfirmSelection)
    /\ [][ConfirmSelection =>
             /\ Len(selection_history'.rows) = Len(selection_history.rows) + 1
             /\ LedgerIds'[Len(LedgerIds')] = random_selected_book[1].id.v
             /\ random_selected_book' = None
             /\ ~show_random_selection']_vars

\* The Confirm button is shown for a pick that has since been removed from
\* the shortlist, while the ledger holds records.
C14_Witness ==
    /\ PendingShown
    /\ Len(selection_history.rows) < MaxRounds
    /\ selection_history.rows # <<>>
    /\ ~PendingInShortlist
    /\ random_selected_book[1] \notin Range(eligible_books)

\* C15: on a non-empty ledger remove-last deletes exactly one record, the
\* one with the maximum selection_round, leaves every other record as it
\* was and in place, and reports the title and round of the deleted record.
C15_RemoveLastDeletesMaxRound ==
    [][RemoveLastSelection =>
          LET old == selection_history.rows
              new == selection_history'.rows
              removed == remove_last_selection(selection_history)
              deleted == LastRecord
              others(r) == r # deleted
          IN  /\ removed.ok
              /\ Len(new) = Len(old) - 1
              /\ new = SelectSeq(old, others)
              /\ \A r \in Range(old) : r.selection_round <= deleted.selection_round
              /\ removed.title = deleted.title
              /\ removed.round = deleted.selection_round]_vars

\* A ledger of two records, the later one written with an empty pages cell:
\* remove-last has a record to delete and one to keep.
C15_Witness ==
    /\ Len(selection_history.rows) = 2
    /\ selection_history.rows[2].pages = ""
    /\ selection_history.rows[1].pages # ""
    /\ ENABLED RemoveLastSelection

\* C16: on an empty ledger remove_last_selection fails with the
\* nothing-to-remove message and writes nothing: the file is as it was, a
\* missing file stays missing, and the sidebar offers no remove-last step.
C16_RemoveLastOnEmptyLedger ==
    history_df = <<>> =>
        LET removed == remove_last_selection(selection_history)
        IN  /\ ~removed.ok
            /\ removed.message = "No selections to remove"
            /\ removed.file = selection_history
            /\ (~selection_history.exists => ~removed.file.exists)
            /\ ~ENABLED RemoveLastSelection

\* The ledger file has never been written, while the shortlist holds books.
C16_Witness ==
    /\ ~selection_history.exists
    /\ history_df = <<>>
    /\ Len(book_selections.rows) >= 2

-----------------------------------------------------------------------------
(* C17 - C20: the shortlist store                                          *)

\* C17: after any sequence of adds (single, bulk, manual), removals and
\* deduplications from an empty shortlist no two entries have the same id.
C17_ShortlistIdsUnique ==
    \A i, j \in DOMAIN ListIds : ListIds[i] = ListIds[j] => i = j

\* A full shortlist whose id column is read as text because of a manual
\* entry, next to catalogue books with numeric ids.
C17_Witness ==
    /\ Len(ListIds) = MaxList
    /\ \E i \in DOMAIN ListIds : ListIds[i] = manual_book.id
    /\ \E i \in DOMAIN ListIds : ListIds[i] \in NumericCells
    /\ selection_history.rows # <<>>

\* The books an add handler can be given: a catalogue document or the
\* manual-entry book.
Addable == SearchResults \cup {manual_book}

\* C18: adding a book whose id is already listed fails and leaves the
\* shortlist file as it is; a successful add appends the new entry after
\* the existing entries and leaves those as they were.
C18_AddRejectsDuplicateAppendsNew ==
    \A book_data \in Addable :
        LET added == save_book_to_list(book_selections, book_data)
            old == book_selections.rows
            new == added.file.rows
        IN  IF \E i \in DOMAIN ListIds : ListIds[i] = book_data.id
            THEN /\ ~added.ok
                 /\ added.file = book_selections
            ELSE /\ added.ok
                 /\ Len(new) = Len(old) + 1
                 /\ new[Len(new)].id = book_data.id
                 /\ SubSeq(new, 1, Len(old)) = old

RECURSIVE FirstOccurrences(_)
\* The rows of a file whose id no earlier row has, in file order.
FirstOccurrences(rows) ==
    IF rows = <<>> THEN <<>>
    ELSE LET init == FirstOccurrences(SubSeq(rows, 1, Len(rows) - 1))
             last == rows[Len(rows)]
         IN  IF \E i \in 1..(Len(rows) - 1) : rows[i].id = last.id THEN init
             ELSE Append(init, last)

\* C19: clean_duplicate_books keeps, in order, the first entry of every id
\* and reports the number of entries dropped; run again at once it reports
\* 0 and leaves the file as it is.
C19_DedupeKeepsFirstIdempotent ==
    book_selections.exists =>
        LET first == clean_duplicate_books(book_selections)
            second == clean_duplicate_books(first.file)
            kept == FirstOccurrences(book_selections.rows)
        IN  /\ ~first.none
            /\ first.removed_count = Len(book_selections.rows) - Len(kept)
            /\ Column(first.file.rows, "id") = Column(kept, "id")
            /\ Column(first.file.rows, "title") = Column(kept, "title")
            /\ ~second.none
            /\ second.removed_count = 0
            /\ second.file = first.file

\* C20: add, remove-selected and deduplicate leave the ledger file as it
\* is, confirm, remove-last and clear-all leave the shortlist file as it is,
\* and no step changes both; so the record of a book that has left the
\* shortlist stays in the ledger with its round.
C20_StoresChangeSeparately ==
    [][/\ (ManualEntry \/ AddSelectedBooks \/ RemoveSelectedBooks
            \/ RemoveDuplicateBooks) => UNCHANGED selection_history
       /\ (ConfirmSelection \/ RemoveLastSelection \/ ClearAllSelections) =>
              UNCHANGED book_selections
       /\ book_selections' # book_selections =>
              selection_history' = selection_history]_vars

\* The ledger holds two records and the book of the first one is no longer
\* in the shortlist.
C20_Witness ==
    /\ Len(LedgerIds) = 2
    /\ LedgerRounds = <<1, 2>>
    /\ book_selections.rows # <<>>
    /\ \A i \in DOMAIN ListIds : ListIds[i] # LedgerIds[1]

-----------------------------------------------------------------------------
(* Storage faults.  A read of an existing file may raise something other  *)
(* than FileNotFoundError, and a write may raise when the file is opened;  *)
(* a write that raises leaves the file as it was.                          *)

\* load_selection_history under a read fault: the generic handler reports
\* the error and returns pd.DataFrame(), an empty frame.
load_selection_history_io(file, read_error) ==
    IF read_error THEN <<>> ELSE load_selection_history(file)

\* load_book_list under a read fault: likewise an empty frame.
load_book_list_io(file, read_error) ==
    IF read_error THEN <<>> ELSE load_book_list(file)

\* save_book_selection with the outcome of its read and of its write.
save_book_selection_io(file, book_data, read_error, write_error) ==
    LET ledger_df == load_selection_history_io(file, read_error)
    IN  IF write_error THEN [ok |-> FALSE, file |-> file, round |-> 0]
        ELSE [ok |-> TRUE,
              file |-> ToCsv(Upcast(Append(ledger_df,
                                           selection_row(ledger_df, book_data))),
                             "book_id"),
              round |-> next_round(ledger_df)]

\* remove_last_selection with the outcome of its read and of its write.
remove_last_selection_io(file, read_error, write_error) ==
    LET ledger_df == load_selection_history_io(file, read_error)
        max_round == Max(Rounds(ledger_df))
        keep(r) == r.selection_round # max_round
    IN  IF ledger_df = <<>> \/ write_error THEN [ok |-> FALSE, file |-> file]
        ELSE [ok |-> TRUE,
              file |-> ToCsv(SelectSeq(ledger_df, keep), "book_id")]

\* clear_all_selections reads nothing; its write may raise.
clear_all_selections_io(file, write_error) ==
    IF write_error THEN [ok |-> FALSE, file |-> file]
    ELSE clear_all_selections(file)

\* save_book_to_list with the outcome of its read and of its write.
save_book_to_list_io(file, book_data, read_error, write_error) ==
    LET df == load_book_list_io(file, read_error)
    IN  IF already_in_list(df, book_data) \/ write_error
        THEN [ok |-> FALSE, file |-> file]
        ELSE [ok |-> TRUE, file |-> ToCsv(Append(df, book_row(book_data)), "id")]

\* The fault combinations an operation on a file can meet: only a file
\* that exists can fail to be read otherwise than by being missing.
Faults(file) ==
    {f \in [read_error : BOOLEAN, write_error : BOOLEAN] :
        f.read_error => file.exists}

\* Floating selection box: "ADD" with one ticked search result.
AddBookIO ==
    /\ Len(book_selections.rows) < MaxList
    /\ \E book_data \in SearchResults : \E f \in Faults(book_selections) :
           book_selections' =
               save_book_to_list_io(book_selections, book_data,
                                    f.read_error, f.write_error).file
    /\ UNCHANGED <<selection_history, session>>
    /\ UNCHANGED in_flight

\* Random page: "Confirm Selection"; the session is reset on success only.
ConfirmSelectionIO ==
    /\ PendingShown
    /\ Len(selection_history.rows) < MaxRounds
    /\ \E f \in Faults(selection_history) :
           LET saved == save_book_selection_io(selection_history,
                                               random_selected_book[1],
                                               f.read_error, f.write_error)
           IN  /\ selection_history' = saved.file
               /\ show_random_selection' =
                      (IF saved.ok THEN FALSE ELSE show_random_selection)
               /\ random_selected_book' =
                      (IF saved.ok THEN None ELSE random_selected_book)
    /\ UNCHANGED book_selections
    /\ UNCHANGED in_flight

\* Sidebar: "Remove Last Selection".
RemoveLastSelectionIO ==
    /\ history_df # <<>>
    /\ \E f \in Faults(selection_history) :
           selection_history' =
               remove_last_selection_io(selection_history,
                                        f.read_error, f.write_error).file
    /\ UNCHANGED <<book_selections, session>>
    /\ UNCHANGED in_flight

\* Sidebar: "Clear All Selections" and its "Confirm".
ClearAllSelectionsIO ==
    /\ history_df # <<>>
    /\ \E write_error \in BOOLEAN :
           selection_history' =
               clear_all_selections_io(selection_history, write_error).file
    /\ UNCHANGED <<book_selections, session>>
    /\ UNCHANGED in_flight

NextIO ==
    \/ AddBookIO
    \/ PickRandomBook
    \/ SelectRandomBook
    \/ ConfirmSelectionIO
    \/ RemoveLastSelectionIO
    \/ ClearAllSelectionsIO

SpecIO == Init /\ [][NextIO]_vars

\* C21: whenever the read or the write of confirm, remove-last, clear-all
\* or add fails, the operation reports failure and the file is as it was
\* before the call.
C21_FaultKeepsStore ==
    /\ \A f \in Faults(selection_history) :
           (f.read_error \/ f.write_error) =>
               /\ \A book_data \in Range(random_selected_book) :
                      LET saved == save_book_selection_io(
                                       selection_history, book_data,
                                       f.read_error, f.write_error)
                      IN  ~saved.ok /\ saved.file = selection_history
               /\ LET removed == remove_last_selection_io(
                                     selection_history,
                                     f.read_error, f.write_error)
                  IN  ~removed.ok /\ removed.file = selection_history
               /\ (f.write_error =>
                      LET cleared == clear_all_selections_io(
                                         selection_history, f.write_error)
                      IN  ~cleared.ok /\ cleared.file = selection_history)
    /\ \A f \in Faults(book_selections) :
           (f.read_error \/ f.write_error) =>
               \A book_data \in SearchResults :
                   LET added == save_book_to_list_io(
                                    book_selections, book_data,
                                    f.read_error, f.write_error)
                   IN  ~added.ok /\ added.file = book_selections

-----------------------------------------------------------------------------
(* Two sessions on the ledger.  Every mutator reads the whole file, builds *)
(* the new frame in memory and overwrites the whole file; nothing stops    *)
(* another session from running between the read and the write.            *)

\* Mutant: the new record is appended to the file as it is at the write.
write_selection_appends(file, snapshot, book_data) ==
    LET now == load_selection_history(file)
    IN  ToCsv(Upcast(Append(now, selection_row(snapshot, book_data))), "book_id")

\* Mutant: the round is numbered after the file as it is at the write.
write_selection_renumbers(file, snapshot, book_data) ==
    LET now == load_selection_history(file)
    IN  ToCsv(Upcast(Append(snapshot, selection_row(now, book_data))), "book_id")

\* The write of save_book_selection: the frame read earlier plus the new
\* row replaces the file, whatever the file holds by now.
write_selection(file, snapshot, book_data) ==
    ToCsv(Upcast(Append(snapshot, selection_row(snapshot, book_data))), "book_id")

\* The write of remove_last_selection: the frame read earlier without its
\* maximum round replaces the file.
write_without_last(file, snapshot) ==
    LET max_round == Max(Rounds(snapshot))
        keep(r) == r.selection_round # max_round
    IN  ToCsv(SelectSeq(snapshot, keep), "book_id")

\* A shortlist of two books that may follow one another, B then C.
InitLedgerRace ==
    /\ book_selections = save_books_to_list(MissingFile, <<DocB, DocC>>)
    /\ selection_history = MissingFile
    /\ show_random_selection = FALSE
    /\ random_selected_book = None
    /\ in_flight = [s \in Sessions |-> Idle]

\* Confirm Selection, first half: load_selection_history().  The pick in
\* the session is a shortlist row proposed earlier.
ConfirmReads(s) ==
    /\ in_flight[s] = Idle
    /\ Len(history_df) < MaxRounds
    /\ \E book_data \in Range(current_books) :
           in_flight' = [in_flight EXCEPT
                            ![s] = [op |-> "confirm", df |-> history_df,
                                    arg |-> <<book_data>>]]
    /\ UNCHANGED <<stores, session>>

\* Confirm Selection, second half: concat and to_csv.
ConfirmWrites(s) ==
    /\ in_flight[s].op = "confirm"
    /\ selection_history' =
           write_selection(selection_history, in_flight[s].df,
                           in_flight[s].arg[1])
    /\ in_flight' = [in_flight EXCEPT ![s] = Idle]
    /\ UNCHANGED <<book_selections, session>>

\* Remove Last Selection, first half; an empty frame ends the handler.
RemoveLastReads(s) ==
    /\ in_flight[s] = Idle
    /\ history_df # <<>>
    /\ in_flight' = [in_flight EXCEPT
                        ![s] = [op |-> "remove_last", df |-> history_df,
                                arg |-> <<>>]]
    /\ UNCHANGED <<stores, session>>

\* Remove Last Selection, second half.
RemoveLastWrites(s) ==
    /\ in_flight[s].op = "remove_last"
    /\ selection_history' = write_without_last(selection_history, in_flight[s].df)
    /\ in_flight' = [in_flight EXCEPT ![s] = Idle]
    /\ UNCHANGED <<book_selections, session>>

\* Clear All Selections: one write, no read.  The button was rendered for
\* a ledger that held records, so the file exists.
ClearAllWrites(s) ==
    /\ in_flight[s] = Idle
    /\ selection_history.exists
    /\ selection_history' = clear_all_selections(selection_history).file
    /\ UNCHANGED <<book_selections, session, in_flight>>

NextLedgerRace ==
    \E s \in Sessions :
        \/ ConfirmReads(s)
        \/ ConfirmWrites(s)
        \/ RemoveLastReads(s)
        \/ RemoveLastWrites(s)
        \/ ClearAllWrites(s)

SpecLedgerRace == InitLedgerRace /\ [][NextLedgerRace]_vars

\* C22: the last writer wins.  When both sessions have read the same ledger
\* for a confirm and write one after the other, the file ends as the later
\* writer's snapshot plus its own record: one record longer than what was
\* read, with the earlier writer's record gone, although that write was
\* made and reported success.  Any confirm write puts its snapshot plus its
\* record in place of whatever the file holds.
C22_LastWriterWins ==
    /\ [](\A s, t \in Sessions :
             (/\ s # t
              /\ in_flight[s].op = "confirm"
              /\ in_flight[t].op = "confirm"
              /\ in_flight[s].df = history_df
              /\ in_flight[t].df = history_df) =>
                 LET n == Len(history_df)
                     first == write_selection(selection_history,
                                              in_flight[s].df, in_flight[s].arg[1])
                     second == write_selection(first, in_flight[t].df,
                                               in_flight[t].arg[1])
                 IN  /\ Len(first.rows) = n + 1
                     /\ first.rows[n + 1].book_id = in_flight[s].arg[1].id.v
                     /\ second = write_selection(selection_history,
                                                 in_flight[t].df,
                                                 in_flight[t].arg[1])
                     /\ Len(second.rows) = n + 1
                     /\ second.rows[n + 1].book_id = in_flight[t].arg[1].id.v
                     /\ second.rows[n + 1].selection_round =
                            first.rows[n + 1].selection_round)
    /\ [][\A t \in Sessions :
              ConfirmWrites(t) =>
                  /\ Len(selection_history'.rows) = Len(in_flight[t].df) + 1
                  /\ LedgerIds'[Len(LedgerIds')] = in_flight[t].arg[1].id.v]_vars

\* One session has written its confirm and the other, which read the ledger
\* before that write, is about to write a different book for the same
\* round.
C22_Witness ==
    \E s, t \in Sessions :
        /\ s # t
        /\ in_flight[s] = Idle
        /\ in_flight[t].op = "confirm"
        /\ in_flight[t].df # <<>>
        /\ Len(history_df) = Len(in_flight[t].df) + 1
        /\ SubSeq(LedgerIds, 1, Len(in_flight[t].df)) =
               [i \in DOMAIN in_flight[t].df |-> in_flight[t].df[i].book_id.v]
        /\ LedgerIds[Len(LedgerIds)] # in_flight[t].arg[1].id.v

\* C27: whatever the interleaving of the reads and writes of confirm,
\* remove-last and clear-all by two sessions, every ledger written has the
\* rounds 1..N, each once.
C27_RacesKeepRounds ==
    /\ Range(LedgerRounds) = 1..Len(LedgerRounds)
    /\ \A i, j \in DOMAIN LedgerRounds :
           LedgerRounds[i] = LedgerRounds[j] => i = j

\* A session is about to write from a snapshot that another session's
\* write has since made stale, over a ledger of two or more records.
C27_Witness ==
    \E t \in Sessions :
        /\ in_flight[t].op \in {"confirm", "remove_last"}
        /\ in_flight[t].df # history_df
        /\ Len(in_flight[t].df) # Len(history_df)
        /\ Len(history_df) >= 2


-----------------------------------------------------------------------------
(* C24: the value returned by clean_duplicate_books                        *)

\* C24: on every path (duplicates present, none present, a shortlist with
\* no entries, a missing store) clean_duplicate_books returns an integer
\* count, never None, so that the handler's comparison with 0 is defined.
C24_DedupeReturnsCount ==
    LET result == clean_duplicate_books(book_selections)
    IN  /\ ~result.none
        /\ result.removed_count \in Nat


-----------------------------------------------------------------------------
(* Two sessions on the shortlist: no lock between a read and its write     *)

\* The books the two sessions add: two catalogue documents and the manual
\* entry, so that the id column is read both as integers and as text.
RaceBooks == {DocA, DocB, manual_book}

\* Mutant: the new row is appended to the file as it is at the write.
write_book_appends(file, snapshot, book_data) ==
    IF already_in_list(snapshot, book_data) THEN file
    ELSE ToCsv(Append(load_book_list(file), book_row(book_data)), "id")

\* The write of save_book_to_list: nothing when the id was in the frame
\* read earlier, else that frame plus the new row replaces the file.
write_book(file, snapshot, book_data) ==
    IF already_in_list(snapshot, book_data) THEN file
    ELSE ToCsv(Append(snapshot, book_row(book_data)), "id")

\* The write of "Remove Selected Books": the frame the page was rendered
\* from, without the ticked ids, replaces the file.
write_without_selected(file, snapshot, books_to_remove) ==
    LET keep(book) == book.id \notin books_to_remove
    IN  ToCsv(SelectSeq(snapshot, keep), "id")

\* The write of clean_duplicate_books: only when rows were dropped from the
\* frame read earlier.
write_cleaned(file, snapshot) ==
    IF Len(snapshot) - Len(drop_duplicates(snapshot)) > 0
    THEN ToCsv(drop_duplicates(snapshot), "id")
    ELSE file

InitShortlistRace ==
    /\ book_selections = MissingFile
    /\ selection_history = MissingFile
    /\ show_random_selection = FALSE
    /\ random_selected_book = None
    /\ in_flight = [s \in Sessions |-> Idle]

\* save_book_to_list up to its load_book_list().
AddReads(s) ==
    /\ in_flight[s] = Idle
    /\ Len(book_selections.rows) < MaxList
    /\ \E book_data \in RaceBooks :
           in_flight' = [in_flight EXCEPT
               ![s] = [op |-> "add", df |-> current_books, arg |-> <<book_data>>]]
    /\ UNCHANGED <<stores, session>>

\* save_book_to_list from the duplicate check to to_csv.
AddWrites(s) ==
    /\ in_flight[s].op = "add"
    /\ book_selections' =
           write_book(book_selections, in_flight[s].df, in_flight[s].arg[1])
    /\ in_flight' = [in_flight EXCEPT ![s] = Idle]
    /\ UNCHANGED <<selection_history, session>>

\* The list page is rendered from load_book_list() and rows are ticked.
RemoveSelectedReads(s) ==
    /\ in_flight[s] = Idle
    /\ current_books # <<>>
    /\ \E books_to_remove \in SUBSET {current_books[i].id : i \in DOMAIN current_books} :
           /\ books_to_remove # {}
           /\ in_flight' = [in_flight EXCEPT
                  ![s] = [op |-> "remove", df |-> current_books,
                          arg |-> <<books_to_remove>>]]
    /\ UNCHANGED <<stores, session>>

\* List page: "Remove Selected Books", pressed on the page rendered earlier.
RemoveSelectedWrites(s) ==
    /\ in_flight[s].op = "remove"
    /\ book_selections' =
           write_without_selected(book_selections, in_flight[s].df,
                                  in_flight[s].arg[1])
    /\ in_flight' = [in_flight EXCEPT ![s] = Idle]
    /\ UNCHANGED <<selection_history, session>>

\* clean_duplicate_books up to its read_csv; a missing file raises and the
\* call returns 0 at once.
DedupeReads(s) ==
    /\ in_flight[s] = Idle
    /\ book_selections.exists
    /\ in_flight' = [in_flight EXCEPT
           ![s] = [op |-> "dedupe", df |-> ReadCsv(book_selections.rows, "id"),
                   arg |-> <<>>]]
    /\ UNCHANGED <<stores, session>>

\* clean_duplicate_books from drop_duplicates to its return.
DedupeWrites(s) ==
    /\ in_flight[s].op = "dedupe"
    /\ book_selections' = write_cleaned(book_selections, in_flight[s].df)
    /\ in_flight' = [in_flight EXCEPT ![s] = Idle]
    /\ UNCHANGED <<selection_history, session>>

NextShortlistRace ==
    \E s \in Sessions :
        \/ AddReads(s)
        \/ AddWrites(s)
        \/ RemoveSelectedReads(s)
        \/ RemoveSelectedWrites(s)
        \/ DedupeReads(s)
        \/ DedupeWrites(s)

SpecShortlistRace == InitShortlistRace /\ [][NextShortlistRace]_vars

\* Every shortlist written by the interleaved sessions has pairwise
\* distinct ids.
RacesKeepIdsUnique ==
    \A i, j \in DOMAIN ListIds : ListIds[i] = ListIds[j] => i = j

\* C28: whatever the interleaving of the reads and writes of add,
\* remove-selected and deduplicate by two sessions, no shortlist written
\* holds an id twice, and so deduplication always reports 0 books removed.
C28_RacesKeepShortlistUnique ==
    /\ RacesKeepIdsUnique
    /\ LET result == clean_duplicate_books(book_selections)
       IN  ~result.none /\ result.removed_count = 0


-----------------------------------------------------------------------------
(* The primary genre over bounded genres fields                            *)

\* The longest genres field drawn, in lexemes.
GenreLen == 3

\* What a genres field is made of: genre names, the comma and the blank.
GenreLexemes == {"Horror", "horror", "Gothic", ",", " "}

\* The genres fields of a stored book; the empty one is read back as NaN.
GenreTexts == UNION {[1..n -> GenreLexemes] : n \in 0..GenreLen}

\* A shortlist holding book 2 and a ledger whose only record is book 1, by
\* another author: only the genre rule can exclude book 2.
InitGenre ==
    \E listed \in GenreTexts, picked \in GenreTexts :
        /\ book_selections =
               ToCsv(<<[book_row(DocB) EXCEPT !.genres = listed]>>, "id")
        /\ selection_history =
               save_book_selection(MissingFile,
                   [book_row(DocA) EXCEPT !.genres = picked]).file
        /\ show_random_selection = TRUE
        /\ random_selected_book = None
        /\ in_flight = [s \in Sessions |-> Idle]

NextGenre == SelectRandomBook

SpecGenre == InitGenre /\ [][NextGenre]_vars

\* The genres field of the listed book and of the last pick.
ListedGenres == current_books[1].genres

PickedGenres == get_last_selection(history_df).genres

\* What get_primary_genre has to return for a field: nothing for an empty
\* field; otherwise a text free of commas and of surrounding blanks that,
\* padded with blanks, is the field up to its first comma.
IsFirstTokenTrimmed(field, primary) ==
    LET commas == {i \in DOMAIN field : field[i] = ","}
        stop == IF commas = {} THEN Len(field) + 1
                ELSE CHOOSE i \in commas : \A j \in commas : i <= j
        blank(from, to) == \A i \in from..to : field[i] = " "
    IN  /\ field = <<>> => primary = <<>>
        /\ \A i \in DOMAIN primary : primary[i] \notin {","}
        /\ primary # <<>> => primary[1] # " " /\ primary[Len(primary)] # " "
        /\ \E a \in 0..(stop - 1) :
               /\ blank(1, a)
               /\ a + Len(primary) <= stop - 1
               /\ SubSeq(field, a + 1, a + Len(primary)) = primary
               /\ blank(a + Len(primary) + 1, stop - 1)

\* The listed book is excluded by the genre rule.
ExcludedByGenre == eligible_books = <<>>

\* C23 as stated: get_primary_genre returns the trimmed first
\* comma-separated token (empty for an empty or missing field), and two
\* books count as the same genre iff these first tokens are equal, case
\* included, whatever their remaining genres.
C23_SameGenreIffFirstTokensEqual ==
    /\ IsFirstTokenTrimmed(ListedGenres, get_primary_genre(ListedGenres))
    /\ IsFirstTokenTrimmed(PickedGenres, get_primary_genre(PickedGenres))
    /\ ExcludedByGenre <=>
           Strip(FirstToken(ListedGenres)) = Strip(FirstToken(PickedGenres))

\* C23, amended: get_primary_genre returns the trimmed first
\* comma-separated token (empty for an empty or missing field), and two
\* books count as the same genre iff these first tokens are equal, case
\* included, and not empty, whatever their remaining genres.
C23_SameGenreIffNonEmptyFirstTokensEqual ==
    /\ IsFirstTokenTrimmed(ListedGenres, get_primary_genre(ListedGenres))
    /\ IsFirstTokenTrimmed(PickedGenres, get_primary_genre(PickedGenres))
    /\ ExcludedByGenre <=>
           /\ Strip(FirstToken(PickedGenres)) # <<>>
           /\ Strip(FirstToken(ListedGenres)) = Strip(FirstToken(PickedGenres))

\* The listed book has been proposed: its first genre differs from the last
\* pick's in case only, and the last pick's remaining genre is the listed
\* book's first.
C23_Witness ==
    /\ PickedGenres = <<"Horror", ",", "horror">>
    /\ ListedGenres = <<" ", "horror", " ">>
    /\ random_selected_book # None
    /\ random_selected_book[1].id.v = DocB.id


-----------------------------------------------------------------------------
(* C29: the pending pick and the random-selection view                     *)

\* C29: a pending pick exists only while the random-selection view is
\* active: whenever show_random_selection is False, random_selected_book is
\* None, so "Pick Random Book" never brings up a pick proposed earlier.
C29_NoPendingOutsideRandomView ==
    ~show_random_selection => random_selected_book = None


-----------------------------------------------------------------------------
(* C25, C26: the ledger as a whole                                         *)

\* C25: for every two ledger records of consecutive rounds r and r+1, the
\* later record's author_names differs from the earlier one's and, when the
\* earlier one's primary genre is not empty, so does its primary genre.
C25_ConsecutivePicksDiffer ==
    \A i, j \in DOMAIN history_df :
        history_df[j].selection_round = history_df[i].selection_round + 1 =>
            /\ history_df[j].author_names # history_df[i].author_names
            /\ get_primary_genre(history_df[i].genres) # <<>> =>
                   get_primary_genre(history_df[j].genres) #
                       get_primary_genre(history_df[i].genres)

\* C26: no book_id occurs in two ledger records.
C26_LedgerIdsDistinct ==
    \A i, j \in DOMAIN LedgerIds : LedgerIds[i] = LedgerIds[j] => i = j


-----------------------------------------------------------------------------
(* C30: the already-picked rule and the typing of ids                      *)

\* C30: with a ledger of numeric book_ids, a shortlist entry whose id the
\* ledger holds is in no eligible set, both when every shortlist id is
\* numeric and when the shortlist also holds the text id of a manual entry.
C30_PickedExcludedWhateverIdTypes ==
    (\A j \in DOMAIN LedgerIds : LedgerIds[j] \in NumericCells) =>
        \A i \in DOMAIN ListIds :
            (\E j \in DOMAIN LedgerIds : LedgerIds[j] = ListIds[i]) =>
                \A k \in DOMAIN EligibleIds : EligibleIds[k] # ListIds[i]

=============================================================================
